---- MODULE Spec2Model ----
(***************************************************************************)
(* Model of package retry (er-davo/retry): the retry loop retrier.Do of    *)
(* retry.go, the convenience entry point Do of do.go, the backoff          *)
(* strategies of backoff.go and the error wrappers of errors.go.           *)
(*                                                                         *)
(* An error value is the chain of its wrappers, outermost first, as a      *)
(* sequence of strings; the nil error is the empty sequence.  Unwrap is    *)
(* Tail.  Durations are integers in units of 10ms.                         *)
(***************************************************************************)
EXTENDS Integers, Sequences, FiniteSets

\* ---------------------------------------------------------------- bounds
\* largest positive attempt limit that is configured
MaxAttemptsBound == 3
\* number of invocations after which an unbounded run is cut off
MaxUnbounded == 4
\* width of the model's duration integers (int64 in the program)
DurationBits == 16
\* largest attempt index given to an exponential backoff
MaxExpAttempt == 3

\* ---------------------------------------------------------------- errors
Nil == <<>>

\* errors the operation under retry may return
ErrTransient == <<"ErrTransient">>
ErrPermanent == <<"ErrPermanent">>
\* the operation may pass on context.Canceled of some inner context
ErrCanceled == <<"context canceled">>
ErrDeadline == <<"context deadline exceeded">>
\* the operation may pass on the result of a nested retrier
ErrNested == <<"UnretryableError", "ErrPermanent">>

OpErrors == {ErrTransient, ErrPermanent, ErrCanceled, ErrNested}

\* errors a context reports once it is done
CtxErrors == {ErrCanceled, ErrDeadline}

Unwrap(e) == IF Len(e) > 1 THEN Tail(e) ELSE Nil

\* errors.As(err, **UnretryableError): some error of the chain is one
IsUnretryable(e) == \E i \in 1..Len(e) : e[i] = "UnretryableError"

newUnretryableError(e) == IF e = Nil THEN Nil ELSE <<"UnretryableError">> \o e

\* variant: err is returned as it is
allAttemptsFailed_Bare(e) == e

\* fmt.Errorf("all attempts failed: %w", err)
allAttemptsFailed(e) == <<"all attempts failed">> \o e

\* ---------------------------------------------------------------- backoff
Second == 100

\* time.Duration is an int64: the largest value, and the value an int64
\* operation leaves when the exact result is x
MaxDuration == 2 ^ (DurationBits - 1) - 1

Wrap(x) == ((x + 2 ^ (DurationBits - 1)) % (2 ^ DurationBits)) - 2 ^ (DurationBits - 1)

FixedBackoff(interval, jitter) ==
  [kind |-> "Fixed", Interval |-> interval, Base |-> 0, Step |-> 0,
   Factor |-> 0, Max |-> 0, Jitter |-> jitter]

LinearBackoff(base, step, max, jitter) ==
  [kind |-> "Linear", Interval |-> 0, Base |-> base, Step |-> step,
   Factor |-> 0, Max |-> max, Jitter |-> jitter]

\* Factor is a float64, held in tenths
ExponentialBackoff(base, factor, max, jitter) ==
  [kind |-> "Exponential", Interval |-> 0, Base |-> base, Step |-> 0,
   Factor |-> factor, Max |-> max, Jitter |-> jitter]

\* values of rand.Float64(), in hundredths
RandVals == {0, 50, 99}

\* jitter is a fraction in hundredths; r is the value rand.Float64() gave
addJitter(d, jitter, r) ==
  IF jitter <= 0 \/ jitter >= 100
  THEN d
  ELSE (d * (10000 + (2 * r - 100) * jitter)) \div 10000

FixedNext(f, attempt, r) == addJitter(f.Interval, f.Jitter, r)

LinearNext(l, attempt, r) ==
  LET d == Wrap(l.Base + attempt * l.Step)
  IN  IF l.Max > 0 /\ d > l.Max THEN l.Max ELSE addJitter(d, l.Jitter, r)

\* math.Pow for a non-negative integer exponent
RECURSIVE Pow(_, _)
Pow(x, n) == IF n = 0 THEN 1 ELSE x * Pow(x, n - 1)

\* d is the float64 Base * Factor^attempt, held as the fraction num / den;
\* time.Duration(d) truncates it
ExponentialNext(e, attempt, r) ==
  LET num == e.Base * Pow(e.Factor, attempt)
      den == Pow(10, attempt)
  IN  IF e.Max > 0 /\ num > e.Max * den
      THEN e.Max
      ELSE addJitter(num \div den, e.Jitter, r)

\* Backoff.Next, dispatched on the strategy
Next_(b, attempt, r) ==
  CASE b.kind = "Fixed" -> FixedNext(b, attempt, r)
    [] b.kind = "Linear" -> LinearNext(b, attempt, r)
    [] b.kind = "Exponential" -> ExponentialNext(b, attempt, r)

\* -------------------------------------------------------------- retrier
defaultAttempts == 3

defaultBackoff == LinearBackoff(Second, Second, 10 * Second, 10)

\* a predicate is named; "nil" is the nil function value
defaultIsRetryableFunc == "default"

\* the result of calling predicate p on error e
CallPredicate(p, e) ==
  CASE p = "default" -> e # Nil
    [] p = "never" -> FALSE
    [] p = "notPermanent" -> \A i \in 1..Len(e) : e[i] # "ErrPermanent"

Predicates == {"nil", "default", "never", "notPermanent"}

Backoffs == {defaultBackoff, FixedBackoff(0, 0)}

WithMaxAttempts(maxAttempts, r) == [r EXCEPT !.maxAttempts = maxAttempts]
WithBackoff(backoff, r) == [r EXCEPT !.backoff = backoff]
WithIsRetryableFunc(isRetryable, r) == [r EXCEPT !.isRetryable = isRetryable]

\* New() without options
New == [backoff |-> defaultBackoff, maxAttempts |-> defaultAttempts,
        isRetryable |-> defaultIsRetryableFunc]

\* the retrier the package-level Do(ctx, maxAttempts, f) builds
DoRetrier(maxAttempts) == WithMaxAttempts(maxAttempts, New)

Retriers ==
  {WithIsRetryableFunc(p, WithBackoff(b, WithMaxAttempts(n, New))) :
     n \in -1..MaxAttemptsBound, b \in Backoffs, p \in Predicates}

\* ---------------------------------------------------------------- state
VARIABLES
  r,          \* the retrier Do runs on
  ctxErr,     \* ctx.Err(): Nil until the context is done
  pc,         \* position of Do: "for", "call", "eval", "select", "done"
  attempt,    \* loop variable of Do
  err,        \* variable err of Do
  result,     \* value Do returned, once pc = "done"
  delay,      \* duration the pending time.After was given
  timerFired, \* the channel of time.After has a value
  rand,       \* value rand.Float64() had at the last call of backoff.Next
  other,      \* the local state of a second call of Do that is not running
  cancelPc,   \* history: where Do was when the context became done
              \* ("none": not done, "before": done before the call)
  cancelCalls,\* history: number of invocations of f made by then
  calls,      \* history: arguments f was invoked with
  returns,    \* history: values f returned
  verdicts,   \* history: answers of the predicate
  nextArgs,   \* history: arguments backoff.Next was called with
  waited      \* history: number of waits the timer ended

vars == <<r, ctxErr, pc, attempt, err, result, delay, timerFired, rand, other,
          cancelPc, cancelCalls, calls, returns, verdicts, nextArgs, waited>>

hist == <<cancelPc, cancelCalls, calls, returns, verdicts, nextArgs, waited>>

\* no second call
NoCall == [id |-> 0]

Init ==
  /\ r \in Retriers
  /\ ctxErr \in {Nil} \cup CtxErrors
  /\ cancelPc = IF ctxErr = Nil THEN "none" ELSE "before"
  /\ cancelCalls = 0
  /\ pc = "for"
  /\ attempt = 0
  /\ err = Nil
  /\ result = Nil
  /\ delay = 0
  /\ timerFired = FALSE
  /\ rand = 0
  /\ other = NoCall
  /\ calls = <<>>
  /\ returns = <<>>
  /\ verdicts = <<>>
  /\ nextArgs = <<>>
  /\ waited = 0

\* variants of the loop condition: one attempt too few, and the
\* unbounded case forgotten
LoopCondition_OneShort(rt, a) == rt.maxAttempts = 0 \/ a + 1 < rt.maxAttempts
LoopCondition_OneMore(rt, a) == rt.maxAttempts = 0 \/ a <= rt.maxAttempts
LoopCondition_NoUnbounded(rt, a) == a < rt.maxAttempts

\* the condition of the for statement
LoopCondition(rt, a) == rt.maxAttempts = 0 \/ a < rt.maxAttempts

\* variant: the negation of the predicate's answer is dropped
StopsRetry_Inverted(rt, e) ==
  rt.isRetryable # "nil" /\ CallPredicate(rt.isRetryable, e)

\* r.isRetryable != nil && !r.isRetryable(err)
StopsRetry(rt, e) == rt.isRetryable # "nil" /\ ~CallPredicate(rt.isRetryable, e)

Return(v) ==
  /\ pc' = "done"
  /\ result' = v

\* the loop condition fails: the statement after the loop returns
LoopExit ==
  /\ pc = "for"
  /\ ~LoopCondition(r, attempt)
  /\ Return(allAttemptsFailed(err))
  /\ UNCHANGED <<r, other, rand, ctxErr, attempt, err, delay, timerFired, hist>>

\* ctx.Err() is not nil at the head of the loop body
CtxCanceled ==
  /\ pc = "for"
  /\ LoopCondition(r, attempt)
  /\ ctxErr # Nil
  /\ Return(ctxErr)
  /\ UNCHANGED <<r, other, rand, ctxErr, attempt, err, delay, timerFired, hist>>

\* variant: f is called without looking at ctx.Err()
Invoke_Unchecked ==
  /\ pc = "for"
  /\ LoopCondition(r, attempt)
  /\ r.maxAttempts # 0 \/ Len(calls) < MaxUnbounded
  /\ pc' = "call"
  /\ calls' = Append(calls, attempt)
  /\ UNCHANGED <<r, other, rand, ctxErr, attempt, err, result, delay, timerFired,
                 cancelPc, cancelCalls, returns, verdicts, nextArgs, waited>>

\* ctx.Err() is nil: f(attempt) is called
Invoke ==
  /\ pc = "for"
  /\ LoopCondition(r, attempt)
  /\ ctxErr = Nil
  /\ r.maxAttempts # 0 \/ Len(calls) < MaxUnbounded
  /\ pc' = "call"
  /\ calls' = Append(calls, attempt)
  /\ UNCHANGED <<r, other, rand, ctxErr, attempt, err, result, delay, timerFired,
                 cancelPc, cancelCalls, returns, verdicts, nextArgs, waited>>

\* variant: ctx.Err() is looked at again once f has returned nil
AttemptSucceeds_CtxFirst ==
  /\ pc = "call"
  /\ err' = Nil
  /\ returns' = Append(returns, Nil)
  /\ Return(ctxErr)
  /\ UNCHANGED <<r, other, rand, ctxErr, attempt, delay, timerFired,
                 cancelPc, cancelCalls, calls, verdicts, nextArgs, waited>>

\* f returns nil
AttemptSucceeds ==
  /\ pc = "call"
  /\ err' = Nil
  /\ returns' = Append(returns, Nil)
  /\ Return(Nil)
  /\ UNCHANGED <<r, other, rand, ctxErr, attempt, delay, timerFired,
                 cancelPc, cancelCalls, calls, verdicts, nextArgs, waited>>

\* f returns the error e
AttemptFails(e) ==
  /\ pc = "call"
  /\ err' = e
  /\ returns' = Append(returns, e)
  /\ pc' = "eval"
  /\ UNCHANGED <<r, other, rand, ctxErr, attempt, result, delay, timerFired,
                 cancelPc, cancelCalls, calls, verdicts, nextArgs, waited>>

\* variant: a done context wins over the predicate's rejection
StopUnretryable_CtxFirst ==
  /\ pc = "eval"
  /\ StopsRetry(r, err)
  /\ verdicts' = Append(verdicts, FALSE)
  /\ Return(IF ctxErr # Nil THEN ctxErr ELSE newUnretryableError(err))
  /\ UNCHANGED <<r, other, rand, ctxErr, attempt, err, delay, timerFired,
                 cancelPc, cancelCalls, calls, returns, nextArgs, waited>>

\* the predicate rejects err
StopUnretryable ==
  /\ pc = "eval"
  /\ StopsRetry(r, err)
  /\ verdicts' = Append(verdicts, FALSE)
  /\ Return(newUnretryableError(err))
  /\ UNCHANGED <<r, other, rand, ctxErr, attempt, err, delay, timerFired,
                 cancelPc, cancelCalls, calls, returns, nextArgs, waited>>

\* variant: the backoff is asked about the coming attempt
StartWait_NextAttempt(rnd) ==
  /\ pc = "eval"
  /\ ~(r.isRetryable # "nil" /\ ~CallPredicate(r.isRetryable, err))
  /\ verdicts' = IF r.isRetryable = "nil" THEN verdicts ELSE Append(verdicts, TRUE)
  /\ delay' = Next_(r.backoff, attempt + 1, rnd)
  /\ nextArgs' = Append(nextArgs, attempt + 1)
  /\ timerFired' = FALSE
  /\ rand' = rnd
  /\ pc' = "select"
  /\ UNCHANGED <<r, other, ctxErr, attempt, err, result,
                 cancelPc, cancelCalls, calls, returns, waited>>

\* the predicate is nil or accepts err: the select statement is entered
\* with the timer of time.After(r.backoff.Next(attempt))
StartWait(rnd) ==
  /\ pc = "eval"
  /\ ~StopsRetry(r, err)
  /\ verdicts' = IF r.isRetryable = "nil" THEN verdicts ELSE Append(verdicts, TRUE)
  /\ delay' = Next_(r.backoff, attempt, rnd)
  /\ nextArgs' = Append(nextArgs, attempt)
  /\ timerFired' = FALSE
  /\ rand' = rnd
  /\ pc' = "select"
  /\ UNCHANGED <<r, other, ctxErr, attempt, err, result,
                 cancelPc, cancelCalls, calls, returns, waited>>

\* the runtime timer expires
TimerFires ==
  /\ pc = "select"
  /\ ~timerFired
  /\ timerFired' = TRUE
  /\ UNCHANGED <<r, other, rand, ctxErr, pc, attempt, err, result, delay, hist>>

\* variant: a sleep for the delay, with the context looked at after it
WaitCanceled_AfterTimer ==
  /\ pc = "select"
  /\ timerFired
  /\ ctxErr # Nil
  /\ Return(ctxErr)
  /\ UNCHANGED <<r, other, rand, ctxErr, attempt, err, delay, timerFired, hist>>

\* select takes case <-ctx.Done()
WaitCanceled ==
  /\ pc = "select"
  /\ ctxErr # Nil
  /\ Return(ctxErr)
  /\ UNCHANGED <<r, other, rand, ctxErr, attempt, err, delay, timerFired, hist>>

\* variant: the post statement attempt++ is missing
WaitElapsed_NoIncrement ==
  /\ pc = "select"
  /\ timerFired
  /\ waited' = waited + 1
  /\ pc' = "for"
  /\ UNCHANGED <<r, other, rand, ctxErr, attempt, err, result, delay, timerFired,
                 cancelPc, cancelCalls, calls, returns, verdicts, nextArgs>>

\* select takes case <-time.After(...); then the post statement attempt++
WaitElapsed ==
  /\ pc = "select"
  /\ timerFired
  /\ attempt' = attempt + 1
  /\ waited' = waited + 1
  /\ pc' = "for"
  /\ UNCHANGED <<r, other, rand, ctxErr, err, result, delay, timerFired,
                 cancelPc, cancelCalls, calls, returns, verdicts, nextArgs>>

\* the owner of the context cancels it, or its deadline passes
Cancel(e) ==
  /\ pc # "done"
  /\ ctxErr = Nil
  /\ ctxErr' = e
  /\ cancelPc' = pc
  /\ cancelCalls' = Len(calls)
  /\ UNCHANGED <<r, other, rand, pc, attempt, err, result, delay, timerFired,
                 calls, returns, verdicts, nextArgs, waited>>

Next ==
  \/ LoopExit
  \/ CtxCanceled
  \/ Invoke
  \/ AttemptSucceeds
  \/ \E e \in OpErrors : AttemptFails(e)
  \/ StopUnretryable
  \/ \E rnd \in RandVals : StartWait(rnd)
  \/ TimerFires
  \/ WaitCanceled
  \/ WaitElapsed
  \/ \E e \in CtxErrors : Cancel(e)

Spec == Init /\ [][Next]_vars

TypeOK ==
  /\ r \in Retriers
  /\ pc \in {"for", "call", "eval", "select", "done"}
  /\ attempt \in Nat
  /\ timerFired \in BOOLEAN

\* Do runs on: each of its steps is taken when it stays possible, every
\* invocation of f returns and every timer fires; nothing obliges the
\* owner of the context to cancel it
Fairness ==
  /\ WF_vars(LoopExit)
  /\ WF_vars(CtxCanceled)
  /\ WF_vars(Invoke)
  /\ WF_vars(AttemptSucceeds \/ \E e \in OpErrors : AttemptFails(e))
  /\ WF_vars(StopUnretryable)
  /\ WF_vars(\E rnd \in RandVals : StartWait(rnd))
  /\ WF_vars(TimerFires)
  /\ WF_vars(WaitCanceled)
  /\ WF_vars(WaitElapsed)

SpecLive == Init /\ [][Next]_vars /\ Fairness

\* ------------------------------------------- a backoff strategy by itself
\* jitter fractions in hundredths: negative, zero, inside (0,1) and one
JitterInputs == {-10, 0, 10, 100}

\* an attempt index at which Second * attempt is near the largest duration
BigAttempt == MaxDuration \div Second

BackoffInputs ==
  {FixedBackoff(i, j) : i \in {0, Second}, j \in JitterInputs}
  \cup {LinearBackoff(b, st, 3 * m, j) :
          b \in {0, Second}, st \in {0, Second}, m \in {0, Second}, j \in JitterInputs}
  \cup {ExponentialBackoff(Second, f, 3 * m, j) :
          f \in {10, 15, 20}, m \in {0, Second}, j \in JitterInputs}

\* a caller is about to call r.backoff.Next(attempt)
InitBackoff ==
  /\ r \in {WithBackoff(b, New) : b \in BackoffInputs}
  /\ attempt \in 0..MaxExpAttempt \cup {BigAttempt}
  /\ r.backoff.kind = "Exponential" => attempt <= MaxExpAttempt
  /\ pc = "next"
  /\ ctxErr = Nil
  /\ cancelPc = "none"
  /\ cancelCalls = 0
  /\ err = Nil
  /\ result = Nil
  /\ delay = 0
  /\ timerFired = FALSE
  /\ rand = 0
  /\ other = NoCall
  /\ calls = <<>>
  /\ returns = <<>>
  /\ verdicts = <<>>
  /\ nextArgs = <<>>
  /\ waited = 0

\* Next returns, rand.Float64() giving rnd when it is called
CallNext(rnd) ==
  /\ pc = "next"
  /\ delay' = Next_(r.backoff, attempt, rnd)
  /\ rand' = rnd
  /\ nextArgs' = Append(nextArgs, attempt)
  /\ pc' = "returned"
  /\ UNCHANGED <<r, other, ctxErr, attempt, err, result, timerFired,
                 cancelPc, cancelCalls, calls, returns, verdicts, waited>>

NextBackoff == \E rnd \in RandVals : CallNext(rnd)

SpecBackoff == InitBackoff /\ [][NextBackoff]_vars

\* ------------------------------------------ two calls of Do on one retrier
\* largest positive attempt limit of a retrier that two calls share
TwoMaxAttempts == 2

TwoOpErrors == {ErrTransient, ErrPermanent}

TwoRetriers ==
  {WithIsRetryableFunc(p, WithBackoff(FixedBackoff(0, 0), WithMaxAttempts(n, New))) :
     n \in -1..TwoMaxAttempts, p \in {"default", "notPermanent"}}

\* the variables of Do and the context of the call that is running
Locals ==
  [id |-> 3 - other.id, ctxErr |-> ctxErr, pc |-> pc, attempt |-> attempt,
   err |-> err, result |-> result, delay |-> delay, timerFired |-> timerFired,
   rand |-> rand, cancelPc |-> cancelPc, cancelCalls |-> cancelCalls,
   calls |-> calls, returns |-> returns, verdicts |-> verdicts,
   nextArgs |-> nextArgs, waited |-> waited]

\* the variables of a call that is at the entry of Do with the context error c
Entry(i, c) ==
  [id |-> i, ctxErr |-> c, pc |-> "for", attempt |-> 0,
   err |-> Nil, result |-> Nil, delay |-> 0, timerFired |-> FALSE,
   rand |-> 0, cancelPc |-> IF c = Nil THEN "none" ELSE "before", cancelCalls |-> 0,
   calls |-> <<>>, returns |-> <<>>, verdicts |-> <<>>,
   nextArgs |-> <<>>, waited |-> 0]

\* call 1 is running, call 2 is at its entry
InitTwo ==
  /\ r \in TwoRetriers
  /\ ctxErr \in {Nil, ErrCanceled}
  /\ cancelPc = IF ctxErr = Nil THEN "none" ELSE "before"
  /\ cancelCalls = 0
  /\ pc = "for"
  /\ attempt = 0
  /\ err = Nil
  /\ result = Nil
  /\ delay = 0
  /\ timerFired = FALSE
  /\ rand = 0
  /\ \E c \in {Nil, ErrCanceled} : other = Entry(2, c)
  /\ calls = <<>>
  /\ returns = <<>>
  /\ verdicts = <<>>
  /\ nextArgs = <<>>
  /\ waited = 0

\* variants: attempt, or err, is a field of the retrier that the calls
\* share instead of a variable of Do
Switch_SharedAttempt ==
  /\ other.id # 0
  /\ other' = Locals
  /\ ctxErr' = other.ctxErr
  /\ pc' = other.pc
  /\ err' = other.err
  /\ result' = other.result
  /\ delay' = other.delay
  /\ timerFired' = other.timerFired
  /\ rand' = other.rand
  /\ cancelPc' = other.cancelPc
  /\ cancelCalls' = other.cancelCalls
  /\ calls' = other.calls
  /\ returns' = other.returns
  /\ verdicts' = other.verdicts
  /\ nextArgs' = other.nextArgs
  /\ waited' = other.waited
  /\ UNCHANGED <<r, attempt>>

Switch_SharedErr ==
  /\ other.id # 0
  /\ other' = Locals
  /\ ctxErr' = other.ctxErr
  /\ pc' = other.pc
  /\ attempt' = other.attempt
  /\ result' = other.result
  /\ delay' = other.delay
  /\ timerFired' = other.timerFired
  /\ rand' = other.rand
  /\ cancelPc' = other.cancelPc
  /\ cancelCalls' = other.cancelCalls
  /\ calls' = other.calls
  /\ returns' = other.returns
  /\ verdicts' = other.verdicts
  /\ nextArgs' = other.nextArgs
  /\ waited' = other.waited
  /\ UNCHANGED <<r, err>>

\* the scheduler runs the other call: the variables of Do belong to the
\* call, the retrier is the one both calls were made on
Switch ==
  /\ other.id # 0
  /\ other' = Locals
  /\ ctxErr' = other.ctxErr
  /\ pc' = other.pc
  /\ attempt' = other.attempt
  /\ err' = other.err
  /\ result' = other.result
  /\ delay' = other.delay
  /\ timerFired' = other.timerFired
  /\ rand' = other.rand
  /\ cancelPc' = other.cancelPc
  /\ cancelCalls' = other.cancelCalls
  /\ calls' = other.calls
  /\ returns' = other.returns
  /\ verdicts' = other.verdicts
  /\ nextArgs' = other.nextArgs
  /\ waited' = other.waited
  /\ UNCHANGED r

NextTwo ==
  \/ LoopExit
  \/ CtxCanceled
  \/ Invoke
  \/ AttemptSucceeds
  \/ \E e \in TwoOpErrors : AttemptFails(e)
  \/ StopUnretryable
  \/ StartWait(0)
  \/ TimerFires
  \/ WaitCanceled
  \/ WaitElapsed
  \/ Cancel(ErrCanceled)
  \/ Switch

SpecTwo == InitTwo /\ [][NextTwo]_vars

\* ------------------------------------------------------------ properties
Last(s) == s[Len(s)]

\* the indices 0, 1, ..., n-1 in order
Indices(n) == [i \in 1..n |-> i - 1]

\* the cancellation signal has not triggered
NeverCanceled == ctxErr = Nil

\* the three inspections a caller can make of a result
IsCancellation(e) ==
  \E i \in 1..Len(e) : e[i] \in {"context canceled", "context deadline exceeded"}

IsExhaustion(e) == Len(e) > 0 /\ e[1] = "all attempts failed"

IsUnretryableMarked(e) == \E i \in 1..Len(e) : e[i] = "UnretryableError"

\* the predicate of the retrier accepts e (a nil predicate is never asked)
Accepts(e) ==
  \/ r.isRetryable = "nil"
  \/ r.isRetryable = "default" /\ e # Nil
  \/ r.isRetryable = "notPermanent" /\ e \notin {ErrPermanent, ErrNested}

Rejects(e) == r.isRetryable # "nil" /\ ~Accepts(e)

\* C1: if the cancellation signal is already triggered when Do is called,
\* the operation is never invoked and Do returns the signal's own error,
\* for every configured attempt limit.
C1_CanceledBeforeCall ==
  cancelPc = "before" =>
    /\ calls = <<>>
    /\ pc = "done" => result = ctxErr

\* C2: with maxAttempts = N > 0, an operation that fails every time, a
\* predicate that accepts every failure and no cancellation, Do invokes
\* the operation exactly N times, with indices 0..N-1, and returns the
\* exhaustion error wrapping the error of the N-th invocation.
C2_ExhaustionAfterN ==
  ( /\ pc = "done"
    /\ r.maxAttempts > 0
    /\ r.isRetryable # "nil"
    /\ NeverCanceled
    /\ \A i \in 1..Len(returns) : returns[i] # Nil /\ Accepts(returns[i]) )
  =>
    /\ calls = Indices(r.maxAttempts)
    /\ IsExhaustion(result)
    /\ Unwrap(result) = returns[r.maxAttempts]

C2_Witness ==
  /\ pc = "done"
  /\ r.maxAttempts = 3
  /\ r.isRetryable = "default"
  /\ NeverCanceled
  /\ Len(calls) = 3
  /\ returns[1] # returns[3]
  /\ returns[2] # returns[3]
  /\ result = <<"all attempts failed">> \o returns[3]

\* C3: when the predicate rejects the error of an attempt, at any attempt
\* index, that attempt is the last one, the backoff is not consulted and
\* no wait happens after it, and Do returns the UnretryableError whose
\* Unwrap is that error.
C3_RejectedStopsAtOnce ==
  \A i \in 1..Len(returns) :
    (returns[i] # Nil /\ Rejects(returns[i])) =>
      /\ Len(calls) = i
      /\ Len(nextArgs) = i - 1
      /\ waited = i - 1
      /\ pc \in {"eval", "done"}
      /\ pc = "done" =>
           /\ result[1] = "UnretryableError"
           /\ Unwrap(result) = returns[i]

C3_Witness ==
  /\ pc = "done"
  /\ r.maxAttempts = 2
  /\ r.isRetryable = "notPermanent"
  /\ returns = <<ErrTransient, ErrPermanent>>
  /\ result = <<"UnretryableError", "ErrPermanent">>
  /\ waited = 1

\* C4: without cancellation, a run whose failures are all accepted by the
\* predicate ends only on a success or on reaching the limit; when attempt
\* k succeeds after k failures, Do returns nil after exactly k+1
\* invocations and exactly k waits, one after each failed attempt.
C4_SuccessAfterFailures ==
  ( /\ pc = "done"
    /\ NeverCanceled
    /\ \A i \in 1..Len(returns) : returns[i] # Nil => Accepts(returns[i]) )
  =>
    IF Len(returns) > 0 /\ Last(returns) = Nil
    THEN /\ result = Nil
         /\ calls = Indices(Len(returns))
         /\ nextArgs = Indices(Len(returns) - 1)
         /\ waited = Len(returns) - 1
         /\ \A i \in 1..(Len(returns) - 1) : returns[i] # Nil
    ELSE r.maxAttempts # 0 /\ Len(returns) >= r.maxAttempts

C4_Witness ==
  /\ pc = "done"
  /\ NeverCanceled
  /\ r.maxAttempts = 3
  /\ returns = <<ErrTransient, ErrCanceled, Nil>>
  /\ result = Nil
  /\ waited = 2

\* C5: with maxAttempts = 0, once the cancellation signal has triggered
\* during the wait after a failed attempt, the operation is not invoked
\* again and Do returns the cancellation error, whether the select takes
\* the timer or the cancellation first.
C5_CanceledInWait ==
  (r.maxAttempts = 0 /\ cancelPc = "select") =>
    /\ Len(calls) = cancelCalls
    /\ pc # "call"
    /\ pc = "done" => result = ctxErr

\* the select took the timer, and the check at the loop head returned
C5_Witness ==
  /\ r.maxAttempts = 0
  /\ cancelPc = "select"
  /\ cancelCalls = 1
  /\ waited = 1
  /\ pc = "done"
  /\ result = ctxErr

\* C6: every non-nil result of Do is exactly one of unretryable-marked,
\* a cancellation and an exhaustion, whatever the operation returns.
C6_ExactlyOneShape ==
  (pc = "done" /\ result # Nil) =>
    /\ IsUnretryableMarked(result) \/ IsCancellation(result) \/ IsExhaustion(result)
    /\ ~(IsUnretryableMarked(result) /\ IsCancellation(result))
    /\ ~(IsUnretryableMarked(result) /\ IsExhaustion(result))
    /\ ~(IsCancellation(result) /\ IsExhaustion(result))

\* C7: Do returns nil if and only if the most recent invocation of the
\* operation returned nil.
C7_NilIffSuccess ==
  pc = "done" =>
    (result = Nil <=> (Len(returns) > 0 /\ Last(returns) = Nil))

C7_Witness ==
  /\ pc = "done"
  /\ result = Nil
  /\ Len(returns) = 2
  /\ cancelPc = "call"

\* C8: when the attempt that reaches the limit fails with an accepted
\* error, Do goes straight to the exhaustion result: no backoff call and
\* no wait follow that attempt, so N attempts see N-1 waits, and the
\* result is the exhaustion error even if the signal has triggered.
C8_NoWaitAfterLastAttempt ==
  ( /\ r.maxAttempts > 0
    /\ Len(returns) = r.maxAttempts
    /\ Last(returns) # Nil
    /\ ~Rejects(Last(returns))
    /\ pc # "eval" )
  =>
    /\ pc = "done"
    /\ IsExhaustion(result)
    /\ Unwrap(result) = Last(returns)
    /\ Len(nextArgs) = r.maxAttempts - 1
    /\ waited = r.maxAttempts - 1

\* C9: with maxAttempts = 0 Do never returns the exhaustion error: it
\* ends only in success, the cancellation error or an UnretryableError.
C9_UnboundedNeverExhausts ==
  (r.maxAttempts = 0 /\ pc = "done") =>
    \/ result = Nil /\ Len(returns) > 0 /\ Last(returns) = Nil
    \/ result = ctxErr /\ ctxErr # Nil
    \/ /\ Len(returns) > 0
       /\ Rejects(Last(returns))
       /\ result = <<"UnretryableError">> \o Last(returns)

C9_Witness ==
  /\ r = DoRetrier(0)
  /\ pc = "done"
  /\ Len(calls) > 3
  /\ result = Nil

\* C10: the operation is invoked with the indices 0, 1, 2, ... in order,
\* and attempt n+1 starts only after attempt n returned an error the
\* predicate accepted, the backoff was consulted once with argument n and
\* the wait completed.
C10_Sequential ==
  /\ calls = Indices(Len(calls))
  /\ Len(returns) \in {Len(calls) - 1, Len(calls)}
  /\ \A n \in 1..(Len(calls) - 1) :
       /\ returns[n] # Nil
       /\ Accepts(returns[n])
       /\ r.isRetryable # "nil" => verdicts[n] = TRUE
       /\ nextArgs[n] = n - 1
  /\ Len(nextArgs) \in {Len(calls) - 1, Len(calls)}
  /\ waited \in {Len(calls) - 1, Len(calls)}
  /\ pc = "call" => (Len(nextArgs) = Len(calls) - 1 /\ waited = Len(calls) - 1)

C10_Witness ==
  /\ pc = "call"
  /\ calls = <<0, 1, 2>>
  /\ nextArgs = <<0, 1>>
  /\ waited = 2

\* ------------------------------------------------- properties of backoff
Min(a, b) == IF a < b THEN a ELSE b

JitterDisabled(b) == b.Jitter <= 0 \/ b.Jitter >= 100

\* the delay before jitter that the formulas of the strategies give
LinearDelay(b, n) ==
  IF b.Max > 0 THEN Min(b.Base + n * b.Step, b.Max) ELSE b.Base + n * b.Step

ExponentialDelay(b, n) ==
  IF b.Max > 0 /\ b.Base * Pow(b.Factor, n) > b.Max * Pow(10, n)
  THEN b.Max
  ELSE (b.Base * Pow(b.Factor, n)) \div Pow(10, n)

\* d * (1 + delta), delta = (x * 2 - 1) * j, for the random value x
Jittered(d, j, x) ==
  IF j <= 0 \/ j >= 100 THEN d ELSE (d * (10000 + (2 * x - 100) * j)) \div 10000

\* C13: with jitter disabled and non-negative parameters, for every attempt
\* index n, FixedBackoff.Next(n) is the interval and LinearBackoff.Next(n)
\* is min(base + n*step, max) when max > 0 and base + n*step when max = 0,
\* and the result is never negative (wherever that value is a duration).
C13_BackoffFormulas ==
  ( /\ pc = "returned"
    /\ JitterDisabled(r.backoff)
    /\ r.backoff.kind \in {"Fixed", "Linear"}
    /\ LinearDelay(r.backoff, attempt) <= MaxDuration )
  =>
    /\ delay >= 0
    /\ r.backoff.kind = "Fixed" => delay = r.backoff.Interval
    /\ r.backoff.kind = "Linear" => delay = LinearDelay(r.backoff, attempt)

\* C14: for a linear or exponential backoff with max > 0, Next(n) is the
\* capped delay d with the jitter applied to it, d * (1 + delta), also when
\* the uncapped delay exceeds max; with jitter disabled it is exactly d.
C14_JitterAfterCap ==
  ( /\ pc = "returned"
    /\ r.backoff.kind \in {"Linear", "Exponential"}
    /\ r.backoff.Max > 0
    /\ attempt <= MaxExpAttempt )
  =>
    delay = Jittered(IF r.backoff.kind = "Linear"
                     THEN LinearDelay(r.backoff, attempt)
                     ELSE ExponentialDelay(r.backoff, attempt),
                     r.backoff.Jitter, rand)

\* ------------------------------------------- further properties of Do
\* number of invocations that have returned an error
Failed == Cardinality({i \in 1..Len(returns) : returns[i] # Nil})

\* C11: no invocation of the operation starts once the cancellation signal
\* has triggered: from then on at most the attempt in flight completes,
\* also when the timer and the cancellation are ready together.
C11_NoInvocationAfterCancel ==
  cancelPc # "none" => Len(calls) = cancelCalls

\* a zero delay: the select took the timer although the context was done
C11_Witness ==
  /\ r.maxAttempts = 0
  /\ cancelPc = "select"
  /\ cancelCalls = 2
  /\ delay = 0
  /\ waited = 2
  /\ pc = "done"
  /\ result = ctxErr

\* C12: when an invocation returns nil Do returns nil at once, also when
\* the signal triggered during that invocation: the predicate and the
\* backoff are not consulted and no wait follows the successful attempt.
C12_SuccessReturnsAtOnce ==
  (Len(returns) > 0 /\ Last(returns) = Nil) =>
    /\ pc = "done"
    /\ result = Nil
    /\ Len(verdicts) = IF r.isRetryable = "nil" THEN 0 ELSE Len(returns) - 1
    /\ Len(nextArgs) = Len(returns) - 1
    /\ waited = Len(returns) - 1

C12_Witness ==
  /\ pc = "done"
  /\ Len(returns) = 3
  /\ Last(returns) = Nil
  /\ cancelPc = "call"
  /\ cancelCalls = 3
  /\ r.isRetryable = "default"
  /\ result = Nil

\* C16: every terminal failure keeps its cause: an UnretryableError unwraps
\* to the error the predicate rejected, an exhaustion error unwraps to the
\* non-nil error of the most recent invocation, and a cancellation result
\* is the signal's own error.
C16_CausePreserved ==
  (pc = "done" /\ result # Nil) =>
    \/ ctxErr # Nil /\ result = ctxErr
    \/ /\ result[1] = "UnretryableError"
       /\ Len(returns) > 0
       /\ Rejects(Last(returns))
       /\ Unwrap(result) = Last(returns)
    \/ /\ IsExhaustion(result)
       /\ Len(returns) > 0
       /\ Last(returns) # Nil
       /\ Unwrap(result) = Last(returns)

\* C17: when the signal triggers while an attempt is in flight and that
\* attempt fails, the predicate is consulted first: a rejected error gives
\* the UnretryableError; an accepted one, with attempts remaining, is
\* followed by a wait that the cancellation ends, and Do returns the
\* cancellation error without another invocation.
C17_CancelDuringAttempt ==
  ( /\ cancelPc = "call"
    /\ Len(returns) >= cancelCalls
    /\ returns[cancelCalls] # Nil
    /\ pc # "eval" )
  =>
    /\ Len(calls) = cancelCalls
    /\ r.isRetryable # "nil" => Len(verdicts) = cancelCalls
    /\ IF Rejects(returns[cancelCalls])
       THEN pc = "done" /\ result = <<"UnretryableError">> \o returns[cancelCalls]
       ELSE /\ Len(nextArgs) = cancelCalls
            /\ (pc = "done" /\ (r.maxAttempts = 0 \/ cancelCalls < r.maxAttempts))
                 => result = ctxErr

C17_Witness ==
  /\ cancelPc = "call"
  /\ cancelCalls = 2
  /\ pc = "done"
  /\ returns = <<ErrTransient, ErrPermanent>>
  /\ r.isRetryable = "notPermanent"
  /\ result = <<"UnretryableError", "ErrPermanent">>

\* C20: with maxAttempts > 0 the operation is invoked at most maxAttempts
\* times, no more waits are started than attempts have failed, and the
\* exhaustion error is returned only after exactly maxAttempts invocations
\* that all failed with errors the predicate accepted (a nil predicate
\* accepting all).
C20_BoundedRun ==
  r.maxAttempts > 0 =>
    /\ Len(calls) <= r.maxAttempts
    /\ Len(nextArgs) <= Failed
    /\ (pc = "done" /\ IsExhaustion(result)) =>
         /\ Len(calls) = r.maxAttempts
         /\ Len(returns) = r.maxAttempts
         /\ \A i \in 1..Len(returns) : returns[i] # Nil /\ Accepts(returns[i])

C20_Witness ==
  /\ r.maxAttempts = 2
  /\ r.isRetryable = "nil"
  /\ pc = "done"
  /\ Len(calls) = 2
  /\ cancelPc = "select"
  /\ result = <<"all attempts failed">> \o returns[2]

\* ------------------------------------------------ properties of two calls
\* the terminal classification of a result
Class(res) ==
  CASE res = Nil -> "success"
    [] res # Nil /\ res[1] = "UnretryableError" -> "unretryable"
    [] res # Nil /\ res[1] = "all attempts failed" -> "exhausted"
    [] OTHER -> "canceled"

\* the two calls saw the same deterministic operation
SameOperation(c, d) ==
  \A i \in 1..Min(Len(c.returns), Len(d.returns)) : c.returns[i] = d.returns[i]

\* C15: two calls of Do on the same configuration, with the same
\* deterministic operation and the same cancellation behaviour (never
\* canceled, or canceled before the call), end with the same classification
\* and the same number of invocations.
C15_Deterministic ==
  ( /\ pc = "done"
    /\ other.pc = "done"
    /\ cancelPc \in {"none", "before"}
    /\ other.cancelPc = cancelPc
    /\ SameOperation(Locals, other) )
  =>
    /\ Class(result) = Class(other.result)
    /\ Len(calls) = Len(other.calls)

C15_Witness ==
  /\ pc = "done"
  /\ other.pc = "done"
  /\ cancelPc = "none"
  /\ other.cancelPc = "none"
  /\ returns = <<ErrTransient, ErrTransient>>
  /\ other.returns = returns
  /\ Class(result) = "exhausted"
  /\ Class(other.result) = "exhausted"

\* what C18 says of one call
OwnRun(c) ==
  /\ c.calls = Indices(Len(c.calls))
  /\ r.maxAttempts > 0 => Len(c.calls) <= r.maxAttempts
  /\ (c.pc = "done" /\ Class(c.result) \in {"unretryable", "exhausted"} /\ Len(c.returns) > 0)
       => Unwrap(c.result) = Last(c.returns)

C19_Termination ==
  /\ (r.maxAttempts > 0) ~> (pc = "done")
  /\ (r.maxAttempts = 0 /\ ctxErr # Nil) ~> (pc = "done")
  /\ [](pc = "select" /\ ctxErr # Nil => ENABLED WaitCanceled)

\* the cancellation ended a wait whose timer had not fired
C19_Witness ==
  /\ r.maxAttempts = 0
  /\ pc = "done"
  /\ cancelPc = "select"
  /\ ~timerFired
  /\ delay > 0
  /\ waited = 1
  /\ Len(calls) = 2
  /\ result = ctxErr

====
